---- MODULE Spec2Model ----
(***************************************************************************)
(* A model of the adaptive radix tree of src/src/art.rs and of the         *)
(* integer-key adapter of src/src/u64_art_map.rs.                          *)
(*                                                                         *)
(* Nodes are records carrying the fields of the Rust types.  Arrays are    *)
(* functions on 0..n-1, so indices are the source's indices; a byte-string *)
(* key is a sequence, and At(key, i) is the source's key[i].               *)
(*                                                                         *)
(* A panic (index out of bounds, unwrap of None, unreachable!(), checked   *)
(* arithmetic overflow) is the result Panic of the operator it happens in, *)
(* and ends the run: after it no operation is enabled.  At every           *)
(* subtraction modelled here a build without overflow checks wraps to a    *)
(* value that the next array index rejects, so both builds panic there.    *)
(***************************************************************************)
EXTENDS Integers, Sequences, FiniteSets, Bags, TLC

MAX_PREFIX_LEN == 10

\* ------------------------------------------------------------------ values
None == [tag |-> "None"]
Some(v) == [tag |-> "Some", v |-> v]
\* Some((key, value)), what minimum, maximum and the pops hand out
SomeEntry(key, value) == [tag |-> "Some", key |-> key, value |-> value]
Panic == [tag |-> "Panic"]
\* a usize result that stands for a panic in the operator that computes it
PanicN == 0 - 1

Min2(a, b) == IF a < b THEN a ELSE b
SetMin(S) == CHOOSE i \in S : \A j \in S : i <= j
SetMax(S) == CHOOSE i \in S : \A j \in S : j <= i
At(key, i) == key[i + 1]
Arr(n, x) == [i \in 0..(n - 1) |-> x]

\* ------------------------------------------------------------------- nodes
Empty == [tag |-> "Empty"]
is_empty(node) == node.tag = "Empty"

\* ArtNodeLeaf::new
NewLeaf(key, key_len, value) ==
    [tag |-> "Leaf", value |-> value, key_len |-> key_len, key |-> key]

\* the Node4 that recursive_insert builds before it adds the two children
NewNode4(partial_len, partial) ==
    [tag |-> "Internal",
     header |-> [partial_len |-> partial_len, num_children |-> 0, partial |-> partial],
     inner |-> [kind |-> "Node4", keys |-> Arr(4, 0), children |-> Arr(4, Empty)]]

\* ArtNodeLeaf::matches
matches(leaf, key, key_len) ==
    IF leaf.key_len # key_len THEN FALSE ELSE leaf.key = key

\* ArtNodeLeaf::longest_common_prefix
longest_common_prefix(self, other, depth) ==
    LET m == Min2(self.key_len, other.key_len)
    IN  IF m < depth THEN PanicN
        ELSE LET max_cmp == m - depth
                 diff == {idx \in 0..(max_cmp - 1) :
                             \/ depth + idx >= Len(self.key)
                             \/ depth + idx >= Len(other.key)
                             \/ At(self.key, depth + idx) # At(other.key, depth + idx)}
             IN  IF diff = {} THEN max_cmp
                 ELSE LET idx == SetMin(diff)
                      IN  IF depth + idx >= Len(self.key) \/ depth + idx >= Len(other.key)
                          THEN PanicN ELSE idx

\* InternalNodeHeader::check_prefix
check_prefix(header, key, key_len, depth) ==
    IF key_len < depth THEN PanicN
    ELSE LET max_cmp == Min2(Min2(header.partial_len, MAX_PREFIX_LEN), key_len - depth)
             diff == {idx \in 0..(max_cmp - 1) :
                         \/ depth + idx >= Len(key)
                         \/ header.partial[idx] # At(key, depth + idx)}
         IN  IF diff = {} THEN max_cmp
             ELSE LET idx == SetMin(diff)
                  IN  IF depth + idx >= Len(key) THEN PanicN ELSE idx

\* ------------------------------------------------------------ child lookup
\* ArtNodeInternal::find_child_mut: the slot of the child under byte c, or -1
find_child_mut(internal, c) ==
    LET n == internal.header
        inner == internal.inner
    IN  CASE inner.kind = "Node4" ->
               LET hit == {i \in 0..(n.num_children - 1) : i > 3 \/ inner.keys[i] = c}
               IN  IF hit = {} THEN 0 - 1 ELSE IF SetMin(hit) > 3 THEN 0 - 2 ELSE SetMin(hit)
          [] inner.kind = "Node16" ->
               LET hit == {i \in 0..(n.num_children - 1) : i > 15 \/ inner.keys[i] = c}
               IN  IF hit = {} THEN 0 - 1 ELSE IF SetMin(hit) > 15 THEN 0 - 2 ELSE SetMin(hit)
          [] inner.kind = "Node48" ->
               LET idx == inner.keys[c]
               IN  IF idx # 0 THEN (IF idx - 1 > 47 THEN 0 - 2 ELSE idx - 1) ELSE 0 - 1
          [] inner.kind = "Node256" ->
               IF is_empty(inner.children[c]) THEN 0 - 1 ELSE c

\* ArtNodeInternal::find_child_index: the slot recursive_delete descends into
find_child_index(internal, c) ==
    LET n == internal.header
        inner == internal.inner
    IN  CASE inner.kind = "Node4" ->
               LET hit == {i \in 0..(n.num_children - 1) : i > 3 \/ inner.keys[i] = c}
               IN  IF hit = {} THEN 0 - 1 ELSE IF SetMin(hit) > 3 THEN 0 - 2 ELSE SetMin(hit)
          [] inner.kind = "Node16" ->
               LET hit == {i \in 0..(Min2(16, n.num_children) - 1) : inner.keys[i] = c}
               IN  IF hit = {} THEN 0 - 1 ELSE SetMin(hit)
          [] inner.kind = "Node48" ->
               LET idx == inner.keys[c]
               IN  IF idx # 0 THEN idx - 1 ELSE 0 - 1
          [] inner.kind = "Node256" -> c

\* ------------------------------------------------------------- add_child
\* the build profile: with overflow checks (debug) `num_children += 1` on 255
\* and `num_children -= 1` on 0 panic, without them (release) they wrap
VARIABLE overflow_checks

\* u8 subtraction of 1 in a build without overflow checks
WrapDec(n) == (n + 255) % 256

\* ArtNodeInternal::add_child: the node with `child` added under byte c
RECURSIVE add_child(_, _, _)
add_child(internal, c, child) ==
    LET n == internal.header
        inner == internal.inner
    IN  CASE inner.kind = "Node4" ->
               IF n.num_children < 4
               THEN LET m == n.num_children
                        lt == {i \in 0..3 : c < inner.keys[i]}
                        idx == IF lt = {} THEN m ELSE SetMin(lt)
                    IN  [internal EXCEPT
                           !.header.num_children = m + 1,
                           !.inner.keys = [j \in 0..3 |->
                               IF j = idx THEN c
                               ELSE IF j > idx /\ j <= m THEN inner.keys[j - 1]
                               ELSE inner.keys[j]],
                           !.inner.children = [j \in 0..3 |->
                               IF j = idx THEN child
                               ELSE IF j > idx /\ j <= m THEN inner.children[j - 1]
                               ELSE inner.children[j]]]
               ELSE add_child(
                      [internal EXCEPT !.inner =
                          [kind |-> "Node16",
                           keys |-> [i \in 0..15 |-> IF i < 4 THEN inner.keys[i] ELSE 0],
                           children |-> [i \in 0..15 |->
                               IF i < 4 THEN inner.children[i] ELSE Empty]]],
                      c, child)
          [] inner.kind = "Node16" ->
               IF n.num_children < 16
               THEN LET m == n.num_children
                        lt == {i \in 0..(m - 1) : c < inner.keys[i]}
                        idx == IF lt = {} THEN m ELSE SetMin(lt)
                    IN  [internal EXCEPT
                           !.header.num_children = m + 1,
                           !.inner.keys = [j \in 0..15 |->
                               IF j = idx THEN c
                               ELSE IF j > idx /\ j <= m THEN inner.keys[j - 1]
                               ELSE inner.keys[j]],
                           !.inner.children = [j \in 0..15 |->
                               IF j = idx THEN child
                               ELSE IF j > idx /\ j <= m THEN inner.children[j - 1]
                               ELSE inner.children[j]]]
               ELSE add_child(
                      [internal EXCEPT !.inner =
                          [kind |-> "Node48",
                           keys |-> [b \in 0..255 |->
                               LET is == {i \in 0..15 : inner.keys[i] = b}
                               IN  IF is = {} THEN 0 ELSE SetMax(is) + 1],
                           children |-> [i \in 0..47 |->
                               IF i < 16 THEN inner.children[i] ELSE Empty]]],
                      c, child)
          [] inner.kind = "Node48" ->
               IF n.num_children < 48
               THEN LET free == {i \in 0..47 : is_empty(inner.children[i])}
                    IN  IF free = {} THEN Panic
                        ELSE LET pos == SetMin(free)
                             IN  [internal EXCEPT
                                    !.header.num_children = n.num_children + 1,
                                    !.inner.keys[c] = pos + 1,
                                    !.inner.children[pos] = child]
               ELSE IF \E b \in 0..255 : inner.keys[b] > 48 THEN Panic
               ELSE add_child(
                      [internal EXCEPT !.inner =
                          [kind |-> "Node256",
                           children |-> [b \in 0..255 |->
                               IF inner.keys[b] # 0
                               THEN inner.children[inner.keys[b] - 1] ELSE Empty]]],
                      c, child)
          [] inner.kind = "Node256" ->
               IF n.num_children = 255 /\ overflow_checks THEN Panic
               ELSE [internal EXCEPT
                       !.header.num_children = (n.num_children + 1) % 256,
                       !.inner.children[c] = child]

\* --------------------------------------------------------- minimum, maximum
\* Node::minimum with ArtNodeInternal::minimum: the leaf, None or Panic
RECURSIVE minimum(_)
minimum(node) ==
    CASE node.tag = "Empty" -> None
      [] node.tag = "Leaf" -> node
      [] node.tag = "Internal" ->
           LET inner == node.inner
           IN  CASE inner.kind \in {"Node4", "Node16"} -> minimum(inner.children[0])
                 [] inner.kind = "Node48" ->
                      LET nz == {i \in 0..255 : inner.keys[i] # 0}
                          idx == IF nz = {} THEN 48 ELSE SetMin(nz)
                          k == inner.keys[idx]
                      IN  IF k = 0 \/ k - 1 > 47 THEN Panic
                          ELSE minimum(inner.children[k - 1])
                 [] inner.kind = "Node256" ->
                      LET ne == {i \in 0..255 : ~is_empty(inner.children[i])}
                      IN  IF ne = {} THEN None ELSE minimum(inner.children[SetMin(ne)])

\* Node::maximum with ArtNodeInternal::maximum: the leaf, None or Panic.
\* iter().rev().position(..) counts from the end of the array: the index it
\* yields for the last match at array index i is 255 - i.
RECURSIVE maximum(_)
maximum(node) ==
    CASE node.tag = "Empty" -> None
      [] node.tag = "Leaf" -> node
      [] node.tag = "Internal" ->
           LET n == node.header
               inner == node.inner
           IN  CASE inner.kind = "Node4" ->
                      IF n.num_children = 0 \/ n.num_children > 4 THEN Panic
                      ELSE maximum(inner.children[n.num_children - 1])
                 [] inner.kind = "Node16" ->
                      IF n.num_children = 0 \/ n.num_children > 16 THEN Panic
                      ELSE maximum(inner.children[n.num_children - 1])
                 [] inner.kind = "Node48" ->
                      LET nz == {i \in 0..255 : inner.keys[i] # 0}
                          idx == IF nz = {} THEN 0 ELSE 255 - SetMax(nz)
                          k == inner.keys[idx]
                      IN  IF k = 0 \/ k - 1 > 47 THEN Panic
                          ELSE maximum(inner.children[k - 1])
                 [] inner.kind = "Node256" ->
                      LET ne == {i \in 0..255 : ~is_empty(inner.children[i])}
                      IN  IF ne = {} THEN None
                          ELSE maximum(inner.children[255 - SetMax(ne)])

\* ---------------------------------------------------------- prefix_mismatch
\* the first index in lo..hi-1 at which keys a and b differ from position
\* `depth` on, `none` when there is no such index, PanicN when that index lies
\* outside one of the keys
FirstDiff(a, b, depth, lo, hi, none) ==
    LET diff == {i \in lo..(hi - 1) :
                    \/ depth + i >= Len(a)
                    \/ depth + i >= Len(b)
                    \/ At(a, depth + i) # At(b, depth + i)}
    IN  IF diff = {} THEN none
        ELSE IF depth + SetMin(diff) >= Len(a) \/ depth + SetMin(diff) >= Len(b)
        THEN PanicN ELSE SetMin(diff)

\* the second half of prefix_mismatch, taken when partial_len exceeds
\* MAX_PREFIX_LEN: the scan of the bytes of leaf l = self.minimum() from idx on.
\* Without a difference it returns idx, the number of cached bytes compared.
prefix_mismatch_leaf(l, key, key_len, depth, idx) ==
    IF l.tag # "Leaf" THEN PanicN
    ELSE IF Min2(l.key_len, key_len) < depth THEN PanicN
    ELSE FirstDiff(l.key, key, depth, idx, Min2(l.key_len, key_len) - depth, idx)

\* the first half of prefix_mismatch: the cached bytes, given the result
\* `cached` of comparing them (max_cmp when none differs)
prefix_mismatch_cached(internal, key, key_len, depth, max_cmp, cached) ==
    IF cached # max_cmp THEN cached
    ELSE IF internal.header.partial_len > MAX_PREFIX_LEN
    THEN prefix_mismatch_leaf(minimum(internal), key, key_len, depth, max_cmp)
    ELSE max_cmp

\* the cached prefix as a key of the depth it is compared at
PartialAt(header, depth) ==
    [i \in 1..(depth + MAX_PREFIX_LEN) |->
        IF i <= depth THEN 0 ELSE header.partial[i - depth - 1]]

\* ArtNodeInternal::prefix_mismatch
prefix_mismatch(internal, key, key_len, depth) ==
    IF key_len < depth THEN PanicN
    ELSE prefix_mismatch_cached(internal, key, key_len, depth,
            Min2(Min2(MAX_PREFIX_LEN, internal.header.partial_len), key_len - depth),
            FirstDiff(PartialAt(internal.header, depth), key, depth, 0,
                Min2(Min2(MAX_PREFIX_LEN, internal.header.partial_len), key_len - depth),
                Min2(Min2(MAX_PREFIX_LEN, internal.header.partial_len), key_len - depth)))

\* ------------------------------------------------------------------ get_mut
RECURSIVE get_mut_from(_, _, _, _)

\* the child lookup of get_mut at depth d, given the slot find_child_mut found
get_mut_child(n_iter, key, key_len, d, slot) ==
    IF slot = 0 - 2 THEN Panic
    ELSE IF slot = 0 - 1 THEN None
    ELSE get_mut_from(n_iter.inner.children[slot], key, key_len, d + 1)

\* the Internal arm of get_mut, given the result of check_prefix (0 for a node
\* without prefix)
get_mut_internal(n_iter, key, key_len, depth, prefix_len) ==
    IF n_iter.header.partial_len # 0 /\ prefix_len = PanicN THEN Panic
    ELSE IF /\ n_iter.header.partial_len # 0
            /\ prefix_len # Min2(MAX_PREFIX_LEN, n_iter.header.partial_len)
    THEN None
    ELSE IF depth + n_iter.header.partial_len >= Len(key) THEN Panic
    ELSE get_mut_child(n_iter, key, key_len, depth + n_iter.header.partial_len,
            find_child_mut(n_iter, At(key, depth + n_iter.header.partial_len)))

\* The loop of ArtTree::get_mut from node n_iter at `depth`: Some(value), None
\* or Panic.
get_mut_from(n_iter, key, key_len, depth) ==
    CASE n_iter.tag = "Leaf" ->
           IF matches(n_iter, key, key_len) THEN Some(n_iter.value) ELSE None
      [] n_iter.tag = "Empty" -> None
      [] n_iter.tag = "Internal" ->
           get_mut_internal(n_iter, key, key_len, depth,
               IF n_iter.header.partial_len # 0
               THEN check_prefix(n_iter.header, key, key_len, depth) ELSE 0)

\* --------------------------------------------------------- recursive_insert
PanicR == [node |-> Empty, ret |-> Panic]

RECURSIVE recursive_insert(_, _, _, _, _)

\* the Leaf arm's split: a new Node4 with the common prefix and the two leaves
insert_split(self, key, key_len, value, depth, longest_prefix) ==
    IF longest_prefix = PanicN THEN PanicR
    ELSE IF depth + Min2(MAX_PREFIX_LEN, longest_prefix) > Len(key) THEN PanicR
    ELSE IF depth + longest_prefix >= Len(self.key) THEN PanicR
    ELSE IF depth + longest_prefix >= Len(key) THEN PanicR
    ELSE [node |->
            add_child(
              add_child(
                NewNode4(longest_prefix,
                         [i \in 0..(MAX_PREFIX_LEN - 1) |->
                             IF i < Min2(MAX_PREFIX_LEN, longest_prefix)
                             THEN At(key, depth + i) ELSE 0]),
                At(self.key, depth + longest_prefix), self),
              At(key, depth + longest_prefix), NewLeaf(key, key_len, value)),
          ret |-> None]

\* the node with the result r of the recursion put back into its slot
insert_put(self, slot, r) ==
    IF r.ret = Panic THEN PanicR
    ELSE [node |-> [self EXCEPT !.inner.children[slot] = r.node], ret |-> r.ret]

\* the result of adding the new leaf to the node
insert_added(added) ==
    IF added = Panic THEN PanicR ELSE [node |-> added, ret |-> None]

\* the child lookup of the Internal arm at depth d: recurse into the child
\* under key[d], or add the new leaf to this node
insert_child(self, key, key_len, value, d, slot) ==
    IF slot = 0 - 2 THEN PanicR
    ELSE IF slot >= 0
    THEN insert_put(self, slot,
            recursive_insert(self.inner.children[slot], key, key_len, value, d + 1))
    ELSE insert_added(add_child(self, At(key, d), NewLeaf(key, key_len, value)))

insert_at(self, key, key_len, value, d) ==
    IF d >= Len(key) THEN PanicR
    ELSE insert_child(self, key, key_len, value, d, find_child_mut(self, At(key, d)))

\* The Internal arm, given the result of prefix_mismatch (0 for a node without
\* prefix).  The arm returns on each of its paths: a key that leaves the
\* node's prefix (prefix_diff < partial_len) goes on to the child lookup at
\* the unadvanced depth, and the code after the match that splits an interior
\* node (split_internal) is never run.
insert_internal(self, key, key_len, value, depth, prefix_diff) ==
    IF self.header.partial_len # 0 /\ prefix_diff = PanicN THEN PanicR
    ELSE insert_at(self, key, key_len, value,
            IF self.header.partial_len # 0 /\ prefix_diff >= self.header.partial_len
            THEN depth + self.header.partial_len ELSE depth)

\* Node::recursive_insert: [node |-> the node that replaces self, ret |-> the
\* displaced value, None, or Panic]
recursive_insert(self, key, key_len, value, depth) ==
    CASE self.tag = "Empty" ->
           [node |-> NewLeaf(key, key_len, value), ret |-> None]
      [] self.tag = "Leaf" ->
           IF matches(self, key, key_len)
           THEN [node |-> [self EXCEPT !.value = value], ret |-> Some(self.value)]
           ELSE insert_split(self, key, key_len, value, depth,
                    longest_common_prefix(self, NewLeaf(key, key_len, value), depth))
      [] self.tag = "Internal" ->
           insert_internal(self, key, key_len, value, depth,
               IF self.header.partial_len # 0
               THEN prefix_mismatch(self, key, key_len, depth) ELSE 0)

\* the descent of recursive_insert from `self` at `depth`: the leaf the insert
\* of `key` reaches and the depth it reaches it at, or found = FALSE when the
\* insert ends at an interior node, at Empty, or aborts on the way
RECURSIVE insert_reaches(_, _, _, _)
insert_reaches_child(self, key, key_len, d, slot) ==
    IF slot < 0 THEN [found |-> FALSE]
    ELSE insert_reaches(self.inner.children[slot], key, key_len, d + 1)
insert_reaches_at(self, key, key_len, d) ==
    IF d >= Len(key) THEN [found |-> FALSE]
    ELSE insert_reaches_child(self, key, key_len, d, find_child_mut(self, At(key, d)))
insert_reaches_internal(self, key, key_len, depth, prefix_diff) ==
    IF self.header.partial_len # 0 /\ prefix_diff = PanicN THEN [found |-> FALSE]
    ELSE insert_reaches_at(self, key, key_len,
            IF self.header.partial_len # 0 /\ prefix_diff >= self.header.partial_len
            THEN depth + self.header.partial_len ELSE depth)
insert_reaches(self, key, key_len, depth) ==
    CASE self.tag = "Empty" -> [found |-> FALSE]
      [] self.tag = "Leaf" -> [found |-> TRUE, leaf |-> self, depth |-> depth]
      [] self.tag = "Internal" ->
           insert_reaches_internal(self, key, key_len, depth,
               IF self.header.partial_len # 0
               THEN prefix_mismatch(self, key, key_len, depth) ELSE 0)

\* --------------------------------------------------------- recursive_delete
\* keys and children of a Node4/Node16 after the child in slot child_pos became
\* Empty: the entries behind it move one slot to the left, the last used slot
\* is cleared
ShiftKeys(keys_, child_pos, nc) ==
    [j \in DOMAIN keys_ |->
        IF j = nc - 1 THEN 0
        ELSE IF j >= child_pos /\ j < nc - 1 THEN keys_[j + 1]
        ELSE keys_[j]]
ShiftChildren(children, child_pos, nc) ==
    [j \in DOMAIN children |->
        IF j = nc - 1 THEN Empty
        ELSE IF j >= child_pos /\ j < nc - 1 THEN children[j + 1]
        ELSE children[j]]

\* the header prefix after the edge byte keys0 and the first sub_prefix bytes
\* of the child's prefix were appended behind its prefix1 bytes
ConcatPartial(partial1, prefix1, sub_prefix, child_partial) ==
    [i \in 0..(MAX_PREFIX_LEN - 1) |->
        IF i >= prefix1 /\ i < prefix1 + sub_prefix
        THEN child_partial[i - prefix1] ELSE partial1[i]]

\* the child with the first `prefix` bytes of the concatenated prefix stored
\* in it and its partial_len grown by the parent's partial_len + 1
CollapseInto(header, child, partial2, prefix) ==
    [child EXCEPT
       !.header.partial = [i \in 0..(MAX_PREFIX_LEN - 1) |->
                              IF i < Min2(prefix, MAX_PREFIX_LEN)
                              THEN partial2[i] ELSE child.header.partial[i]],
       !.header.partial_len = child.header.partial_len + header.partial_len + 1]

\* a merge that installs the child as it is
Collapse_unchanged(header, keys0, child) == child

\* the Node4 arm's merge of a node left with one child, an Interior node
\* `child` under byte keys0, into that child
Collapse(header, keys0, child) ==
    IF header.partial_len < MAX_PREFIX_LEN
    THEN IF header.partial_len + 1 < MAX_PREFIX_LEN
         THEN CollapseInto(header, child,
                 ConcatPartial([header.partial EXCEPT ![header.partial_len] = keys0],
                    header.partial_len + 1,
                    Min2(child.header.partial_len,
                         MAX_PREFIX_LEN - (header.partial_len + 1)),
                    child.header.partial),
                 header.partial_len + 1
                    + Min2(child.header.partial_len,
                           MAX_PREFIX_LEN - (header.partial_len + 1)))
         ELSE CollapseInto(header, child,
                 [header.partial EXCEPT ![header.partial_len] = keys0],
                 header.partial_len + 1)
    ELSE CollapseInto(header, child, header.partial, header.partial_len)

\* the number of elements of S below i: the position a gather loop gives i
Rank(S, i) == Cardinality({j \in S : j < i})
\* the element of S with `r` elements of S below it
Nth(S, r) == CHOOSE i \in S : Rank(S, i) = r

\* the node with its num_children, keys and children replaced
WithEntries(self, nc, keys2, children2) ==
    [self EXCEPT !.header.num_children = nc,
                 !.inner.keys = keys2,
                 !.inner.children = children2]

\* a Node4 arm that keeps a node left with one child
delete_node4_keep(self, ret_val, keys2, children2) ==
    [node |-> WithEntries(self, self.header.num_children - 1, keys2, children2),
     ret |-> ret_val]

\* Node4 arm after the child became Empty: keys2, children2 are the shifted
\* arrays.  A node left with one child is replaced by that child.
delete_node4(self, ret_val, keys2, children2) ==
    IF self.header.num_children - 1 = 1
    THEN CASE children2[0].tag = "Internal" ->
                [node |-> Collapse(self.header, keys2[0], children2[0]),
                 ret |-> ret_val]
           [] children2[0].tag = "Leaf" -> [node |-> children2[0], ret |-> ret_val]
           [] children2[0].tag = "Empty" -> PanicR
    ELSE [node |-> WithEntries(self, self.header.num_children - 1, keys2, children2),
          ret |-> ret_val]

\* a Node16 arm that makes a Node4 of a node as soon as it is left with 4
\* children, the number at which add_child made a Node16 of it
delete_node16_eager(self, ret_val, keys2, children2) ==
    IF self.header.num_children - 1 = 4
    THEN [node |->
            [tag |-> "Internal",
             header |-> [self.header EXCEPT !.num_children = 4],
             inner |-> [kind |-> "Node4",
                        keys |-> [i \in 0..3 |-> keys2[i]],
                        children |-> [i \in 0..3 |-> children2[i]]]],
          ret |-> ret_val]
    ELSE [node |-> WithEntries(self, self.header.num_children - 1, keys2, children2),
          ret |-> ret_val]

\* Node16 arm after the child became Empty: a node left with 3 children
\* becomes a Node4
delete_node16(self, ret_val, keys2, children2) ==
    IF self.header.num_children - 1 = 3
    THEN [node |->
            [tag |-> "Internal",
             header |-> [self.header EXCEPT !.num_children = 3],
             inner |-> [kind |-> "Node4",
                        keys |-> [i \in 0..3 |-> IF i < 3 THEN keys2[i] ELSE 0],
                        children |-> [i \in 0..3 |->
                                        IF i < 3 THEN children2[i] ELSE Empty]]],
          ret |-> ret_val]
    ELSE [node |-> WithEntries(self, self.header.num_children - 1, keys2, children2),
          ret |-> ret_val]

\* a Node48 arm that keeps the variant however few children are left
delete_node48_keep(self, ret_val, keys2, children2, used) ==
    [node |-> WithEntries(self, WrapDec(self.header.num_children), keys2, children2),
     ret |-> ret_val]

\* Node48 arm after the child became Empty: keys2, children2 have the entry
\* of byte c cleared, `used` are the bytes that still have an entry.  A node
\* left with 12 children becomes a Node16.
delete_node48(self, ret_val, keys2, children2, used) ==
    IF WrapDec(self.header.num_children) = 12
    THEN IF Cardinality(used) > 16 \/ (\E b \in used : keys2[b] > 48) THEN PanicR
         ELSE [node |->
                 [tag |-> "Internal",
                  header |-> [self.header EXCEPT !.num_children = 12],
                  inner |-> [kind |-> "Node16",
                             keys |-> [i \in 0..15 |->
                                IF i < Cardinality(used) THEN Nth(used, i) ELSE 0],
                             children |-> [i \in 0..15 |->
                                IF i < Cardinality(used)
                                THEN children2[keys2[Nth(used, i)] - 1]
                                ELSE Empty]]],
               ret |-> ret_val]
    ELSE [node |-> WithEntries(self, WrapDec(self.header.num_children), keys2, children2),
          ret |-> ret_val]

\* Node256 arm after the slot is Empty (also when it was Empty before the
\* call: find_child_index yields the slot of every byte): `live` are the bytes
\* with a child.  A node whose num_children reaches 37 becomes a Node48.
delete_node256(self, ret_val, children1, live) ==
    IF WrapDec(self.header.num_children) = 37
    THEN IF Cardinality(live) > 48 THEN PanicR
         ELSE [node |->
                 [tag |-> "Internal",
                  header |-> [self.header EXCEPT !.num_children = 37],
                  inner |-> [kind |-> "Node48",
                             keys |-> [b \in 0..255 |->
                                IF b \in live THEN Rank(live, b) + 1 ELSE 0],
                             children |-> [i \in 0..47 |->
                                IF i < Cardinality(live)
                                THEN children1[Nth(live, i)] ELSE Empty]]],
               ret |-> ret_val]
    ELSE [node |-> [self EXCEPT
                      !.header.num_children = WrapDec(self.header.num_children),
                      !.inner.children = children1],
          ret |-> ret_val]

\* the arms of recursive_delete once the child in slot child_pos is Empty;
\* children1 holds the Empty child.  num_children - 1 on a count of 0 panics
\* in a build with overflow checks and wraps to 255 without them (Node4,
\* Node16: the index num_children - 1 is out of bounds in every build).
delete_emptied(self, c, child_pos, ret_val, children1) ==
    IF /\ self.header.num_children = 0
       /\ (overflow_checks \/ self.inner.kind \in {"Node4", "Node16"})
    THEN PanicR
    ELSE CASE self.inner.kind = "Node4" ->
                IF self.header.num_children > 4 THEN PanicR
                ELSE delete_node4(self, ret_val,
                        ShiftKeys(self.inner.keys, child_pos, self.header.num_children),
                        ShiftChildren(children1, child_pos, self.header.num_children))
           [] self.inner.kind = "Node16" ->
                IF self.header.num_children > 16 THEN PanicR
                ELSE delete_node16(self, ret_val,
                        ShiftKeys(self.inner.keys, child_pos, self.header.num_children),
                        ShiftChildren(children1, child_pos, self.header.num_children))
           [] self.inner.kind = "Node48" ->
                delete_node48(self, ret_val,
                    [self.inner.keys EXCEPT ![c] = 0],
                    [children1 EXCEPT ![self.inner.keys[c] - 1] = Empty],
                    {b \in 0..255 : b # c /\ self.inner.keys[b] # 0})
           [] self.inner.kind = "Node256" ->
                delete_node256(self, ret_val, children1,
                    {b \in 0..255 : ~is_empty(children1[b])})

\* the node after the recursion into slot child_pos returned r
delete_returned(self, c, child_pos, r) ==
    IF r.ret = Panic THEN PanicR
    ELSE IF ~is_empty(r.node)
    THEN [node |-> [self EXCEPT !.inner.children[child_pos] = r.node], ret |-> r.ret]
    ELSE delete_emptied(self, c, child_pos, r.ret,
            [self.inner.children EXCEPT ![child_pos] = r.node])

RECURSIVE recursive_delete(_, _, _, _)

\* the child lookup of the Internal arm at depth d
delete_child(self, key, key_len, d, child_pos) ==
    IF child_pos = 0 - 2 THEN PanicR
    ELSE IF child_pos = 0 - 1 THEN [node |-> self, ret |-> None]
    ELSE IF child_pos \notin DOMAIN self.inner.children THEN PanicR
    ELSE delete_returned(self, At(key, d), child_pos,
            recursive_delete(self.inner.children[child_pos], key, key_len, d + 1))

\* the Internal arm, given the result of check_prefix (0 for a node without
\* prefix)
delete_internal(self, key, key_len, depth, prefix_len) ==
    IF self.header.partial_len # 0 /\ prefix_len = PanicN THEN PanicR
    ELSE IF /\ self.header.partial_len # 0
            /\ prefix_len # Min2(MAX_PREFIX_LEN, self.header.partial_len)
    THEN [node |-> self, ret |-> None]
    ELSE IF depth + self.header.partial_len >= Len(key) THEN PanicR
    ELSE delete_child(self, key, key_len, depth + self.header.partial_len,
            find_child_index(self, At(key, depth + self.header.partial_len)))

\* Node::recursive_delete: [node |-> the node that replaces self, ret |-> the
\* removed value, None, or Panic]
recursive_delete(self, key, key_len, depth) ==
    CASE self.tag = "Empty" -> [node |-> self, ret |-> None]
      [] self.tag = "Leaf" ->
           IF matches(self, key, key_len)
           THEN [node |-> Empty, ret |-> Some(self.value)]
           ELSE [node |-> self, ret |-> None]
      [] self.tag = "Internal" ->
           delete_internal(self, key, key_len, depth,
               IF self.header.partial_len # 0
               THEN check_prefix(self.header, key, key_len, depth) ELSE 0)

\* ----------------------------------------------------------- recursive_iter
\* Node::recursive_iter with ArtNodeInternal::recursive_iter.  The callback is
\* given by `stop`, the set of values for which it returns true.  The result is
\* [result |-> the bool returned, calls |-> the leaves whose value the callback
\* was invoked with, in order, panic |-> whether an index was out of bounds].
RECURSIVE recursive_iter(_, _)
RECURSIVE iter_slots(_, _, _)

\* the calls of the first child followed by those of the rest of the loop
iter_join(r, rest) ==
    [result |-> rest.result, calls |-> r.calls \o rest.calls, panic |-> rest.panic]

\* the loop's step: r is the result for the child of the first entry of todo
iter_next(node, todo, stop, r) ==
    IF r.result \/ r.panic THEN r
    ELSE iter_join(r, iter_slots(node, todo \ {SetMin(todo)}, stop))

iter_slot(node, todo, stop, slot) ==
    IF slot \notin DOMAIN node.inner.children
    THEN [result |-> FALSE, calls |-> <<>>, panic |-> TRUE]
    ELSE iter_next(node, todo, stop, recursive_iter(node.inner.children[slot], stop))

\* the loop over the entries `todo` (array indices still to visit, ascending)
iter_slots(node, todo, stop) ==
    IF todo = {} THEN [result |-> FALSE, calls |-> <<>>, panic |-> FALSE]
    ELSE iter_slot(node, todo, stop,
            IF node.inner.kind = "Node48"
            THEN node.inner.keys[SetMin(todo)] - 1 ELSE SetMin(todo))

recursive_iter(node, stop) ==
    CASE node.tag = "Leaf" ->
           [result |-> node.value \in stop, calls |-> <<node>>, panic |-> FALSE]
      [] node.tag = "Empty" -> [result |-> TRUE, calls |-> <<>>, panic |-> FALSE]
      [] node.tag = "Internal" ->
           IF node.inner.kind = "Node48"
           THEN iter_slots(node, {i \in 0..255 : node.inner.keys[i] # 0}, stop)
           ELSE iter_slots(node, {i \in DOMAIN node.inner.children :
                                     ~is_empty(node.inner.children[i])}, stop)

\* ------------------------------------------------------------------ ArtTree
\* the tree and the return value of a call: [root, size, ret]
Aborted(t_root, t_size) == [root |-> t_root, size |-> t_size, ret |-> Panic]

\* ArtTree::insert on the tree (t_root, t_size): size grows when
\* recursive_insert returned None
insert_result(t_size, result) ==
    [root |-> result.node,
     size |-> IF result.ret = None THEN t_size + 1 ELSE t_size,
     ret |-> result.ret]
insert(t_root, t_size, key, key_len, value) ==
    insert_result(t_size, recursive_insert(t_root, key, key_len, value, 0))

\* ArtTree::delete: size shrinks when recursive_delete returned Some; the u64
\* size cannot go below zero
delete_result(t_root, t_size, result) ==
    IF result.ret = Panic THEN Aborted(t_root, t_size)
    ELSE IF result.ret = None
    THEN [root |-> result.node, size |-> t_size, ret |-> None]
    ELSE IF t_size = 0 THEN Aborted(t_root, t_size)
    ELSE [root |-> result.node, size |-> t_size - 1, ret |-> result.ret]
delete(t_root, t_size, key, key_len) ==
    delete_result(t_root, t_size, recursive_delete(t_root, key, key_len, 0))

\* ArtTree::get_mut
get_mut(t_root, key, key_len) == get_mut_from(t_root, key, key_len, 0)

\* what minimum()/maximum() hand out for the leaf found: Some((key, value))
LeafPair(l) == IF l.tag = "Leaf" THEN SomeEntry(l.key, l.value) ELSE l

\* ArtTree::minimum, ArtTree::maximum
tree_minimum(t_root) == LeafPair(minimum(t_root))
tree_maximum(t_root) == LeafPair(maximum(t_root))

\* ArtTree::pop_first, ArtTree::pop_last: min_key is the key of the extremal
\* leaf, d the result of delete(min_key), which is unwrapped
pop_result(t_root, t_size, min_key, d) ==
    IF d.ret = None \/ d.ret = Panic THEN Aborted(t_root, t_size)
    ELSE [root |-> d.root, size |-> d.size, ret |-> SomeEntry(min_key, d.ret.v)]
pop_leaf(t_root, t_size, found) ==
    IF found.tag # "Leaf" THEN [root |-> t_root, size |-> t_size, ret |-> found]
    ELSE pop_result(t_root, t_size, found.key,
            delete(t_root, t_size, found.key, Len(found.key)))
pop_first(t_root, t_size) == pop_leaf(t_root, t_size, minimum(t_root))
pop_last(t_root, t_size) == pop_leaf(t_root, t_size, maximum(t_root))

\* ArtTree::iter
iter(t_root, stop) == recursive_iter(t_root, stop)

\* ------------------------------------------------------------ U64ArtMap
\* u64::to_be_bytes, for keys below 2^31 (TLC's integers are 32 bits wide)
RECURSIVE ShiftRight(_, _)
ShiftRight(x, nbytes) == IF nbytes = 0 THEN x ELSE ShiftRight(x \div 256, nbytes - 1)
\* an encoding with the two low bytes in little-endian order, which does not
\* keep the order of the integers
to_me_bytes(x) ==
    [i \in 1..8 |-> IF i = 7 THEN x % 256
                    ELSE IF i = 8 THEN ShiftRight(x, 1) % 256
                    ELSE ShiftRight(x, 8 - i) % 256]
to_be_bytes(x) == [i \in 1..8 |-> ShiftRight(x, 8 - i) % 256]
\* u64::from_be_bytes of the first 8 bytes of a stored key
RECURSIVE from_be_prefix(_, _)
from_be_prefix(k, n) == IF n = 0 THEN 0 ELSE from_be_prefix(k, n - 1) * 256 + k[n]
from_be_bytes(k) == from_be_prefix(k, 8)
\* the closure of U64ArtMap::minimum, maximum, pop_first, pop_last
DecodePair(r) ==
    IF r.tag # "Some" THEN r
    ELSE IF Len(r.key) < 8 THEN Panic
    ELSE SomeEntry(from_be_bytes(r.key), r.value)

\* U64ArtMap::insert, delete, get_mut, minimum, maximum
u64_insert(t_root, t_size, key, value) == insert(t_root, t_size, to_be_bytes(key), 8, value)
u64_delete(t_root, t_size, key) == delete(t_root, t_size, to_be_bytes(key), 8)
u64_get_mut(t_root, key) == get_mut(t_root, to_be_bytes(key), 8)
u64_minimum(t_root) == DecodePair(tree_minimum(t_root))
u64_maximum(t_root) == DecodePair(tree_maximum(t_root))
\* U64ArtMap::pop_first, pop_last: r is what the ArtTree's call returned
u64_pop(r) == [root |-> r.root, size |-> r.size, ret |-> DecodePair(r.ret)]
u64_pop_first(t_root, t_size) == u64_pop(pop_first(t_root, t_size))
u64_pop_last(t_root, t_size) == u64_pop(pop_last(t_root, t_size))

\* ------------------------------------------------------------- the leaves
\* the entries <<key, value>> of the leaves below a node, each as often as
\* there is a leaf holding it
RECURSIVE LeafBag(_)
RECURSIVE LeafBagOf(_, _)
LeafBagOf(children, todo) ==
    IF todo = {} THEN EmptyBag
    ELSE LeafBag(children[SetMin(todo)]) (+) LeafBagOf(children, todo \ {SetMin(todo)})
LeafBag(node) ==
    CASE node.tag = "Empty" -> EmptyBag
      [] node.tag = "Leaf" -> SetToBag({<<node.key, node.value>>})
      [] node.tag = "Internal" ->
           LeafBagOf(node.inner.children,
               {i \in DOMAIN node.inner.children : ~is_empty(node.inner.children[i])})
\* the keys stored in the leaves below a node
StoredKeys(node) == {e[1] : e \in BagToSet(LeafBag(node))}

\* the children of an interior node, each as the pair of the edge byte it is
\* stored under and its slot in `children`
Edges(node) ==
    CASE node.inner.kind \in {"Node4", "Node16"} ->
           {<<node.inner.keys[i], i>> :
               i \in {j \in DOMAIN node.inner.children : ~is_empty(node.inner.children[j])}}
      [] node.inner.kind = "Node48" ->
           {<<c, node.inner.keys[c] - 1>> : c \in {j \in 0..255 : node.inner.keys[j] # 0}}
      [] node.inner.kind = "Node256" ->
           {<<i, i>> : i \in {j \in 0..255 : ~is_empty(node.inner.children[j])}}

\* the leaves below the node at depth d agree with the node's prefix: they
\* are longer than d + partial_len, agree with one another on their first
\* d + partial_len bytes and with the cached prefix bytes from d on, and the
\* leaves below the child under edge byte b have b at d + partial_len
RECURSIVE PrefixCorrect(_, _)
PrefixCorrect(node, d) ==
    IF node.tag # "Internal" THEN TRUE
    ELSE /\ \A k \in StoredKeys(node) :
              /\ Len(k) > d + node.header.partial_len
              /\ \A i \in 0..(Min2(node.header.partial_len, MAX_PREFIX_LEN) - 1) :
                    At(k, d + i) = node.header.partial[i]
         /\ \A k1 \in StoredKeys(node), k2 \in StoredKeys(node) :
              \A i \in 0..(d + node.header.partial_len - 1) : At(k1, i) = At(k2, i)
         /\ \A e \in Edges(node) :
              /\ \A k \in StoredKeys(node.inner.children[e[2]]) :
                    At(k, d + node.header.partial_len) = e[1]
              /\ PrefixCorrect(node.inner.children[e[2]], d + node.header.partial_len + 1)

\* the interior nodes at and below a node
RECURSIVE InternalNodes(_)
InternalNodes(node) ==
    IF node.tag # "Internal" THEN {}
    ELSE {node} \cup UNION {InternalNodes(node.inner.children[i]) :
                               i \in DOMAIN node.inner.children}

\* --------------------------------------------------------- reference map
\* lexicographic order of byte strings, the order of the keys
LexLess(a, b) ==
    \/ /\ Len(a) < Len(b)
       /\ \A i \in 1..Len(a) : a[i] = b[i]
    \/ \E i \in 1..Min2(Len(a), Len(b)) :
          /\ a[i] < b[i]
          /\ \A j \in 1..(i - 1) : a[j] = b[j]
\* the keys the reference map m holds
Present(m) == {k \in DOMAIN m : m[k] # 0}

\* the reference map over byte-string keys: the key of S with i - 1 keys of S
\* before it, the map's smallest and greatest key, the map without them, its
\* entries in ascending order of keys
RefKeyAt(S, i) == CHOOSE k \in S : Cardinality({j \in S : LexLess(j, k)}) = i - 1
RefMin(m) == RefKeyAt(Present(m), 1)
RefMax(m) == RefKeyAt(Present(m), Cardinality(Present(m)))
RefPopFirst(m) == IF Present(m) = {} THEN m ELSE [m EXCEPT ![RefMin(m)] = 0]
RefPopLast(m) == IF Present(m) = {} THEN m ELSE [m EXCEPT ![RefMax(m)] = 0]
RefEntries(m) ==
    [i \in 1..Cardinality(Present(m)) |->
        <<RefKeyAt(Present(m), i), m[RefKeyAt(Present(m), i)]>>]

\* the reference map over integer keys, ordered as integers
U64RefKeyAt(S, i) == CHOOSE k \in S : Cardinality({j \in S : j < k}) = i - 1
U64RefMin(m) == U64RefKeyAt(Present(m), 1)
U64RefMax(m) == U64RefKeyAt(Present(m), Cardinality(Present(m)))
U64RefPopFirst(m) == IF Present(m) = {} THEN m ELSE [m EXCEPT ![U64RefMin(m)] = 0]
U64RefPopLast(m) == IF Present(m) = {} THEN m ELSE [m EXCEPT ![U64RefMax(m)] = 0]
U64RefValues(m) == [i \in 1..Cardinality(Present(m)) |-> m[U64RefKeyAt(Present(m), i)]]

\* ------------------------------------------------------------------- state
\* root, size: the ArtTree.  keys: the keys the operations are called with.
\* model: the reference ordered map run beside the tree (0: the key is
\* absent), as the BTreeMap of the repository's equivalence test.  op, ret:
\* the last call and what it returned; ret = Panic once the program aborted.
\* steps: the number of mutating calls made so far.  load: the number of keys
\* the test driver's insertion loop has inserted.  phase: where the run stands
\* in the scenario of the repository's test that inserts distinct keys into an
\* empty tree and then deletes them: "ins" while every call so far inserted a
\* key not yet inserted, "del" once deletes of inserted keys followed, "other"
\* after any other mutating call.  drained: the number of keys the test
\* driver's deletion loop has deleted.
VARIABLES root, size, model, keys, op, ret, steps, load, phase, drained

vars == <<root, size, model, keys, op, ret, steps, load, phase, drained,
          overflow_checks>>

\* bounds of the model
MaxVal == 2
NumKeys == 3
MaxOps == 4
MaxWideOps == 2

Values == 1..MaxVal

\* keys that share the prefix 1,2 and keys that leave it at the first or at the
\* second byte
KeyList ==
    << <<1, 2, 3>>, <<1, 2, 4>>, <<2, 0, 0>>, <<1, 3, 0>>, <<5, 5, 5>>, <<1, 2, 0>> >>
ShortKeys == {KeyList[i] : i \in 1..NumKeys}

\* keys that share 11 bytes, one more than the header caches, and keys that
\* leave that prefix
Sevens == <<7, 7, 7, 7, 7, 7, 7, 7, 7, 7, 7>>
LongKeyList ==
    << Sevens \o <<1>>, Sevens \o <<2>>, <<7, 7, 8, 0>>, Sevens \o <<3>>,
       <<9, 0, 0, 0>>, <<7, 7, 7, 7, 7, 7, 7, 7, 7, 7, 9, 9>> >>
LongKeys == {LongKeyList[i] : i \in 1..NumKeys}

\* one-byte keys for a root that holds many leaves
WideKeyList == << <<0>>, <<200>>, <<255>>, <<1>>, <<16>>, <<48>> >>
WideKeys == {WideKeyList[i] : i \in 1..NumKeys}
\* the numbers of keys after which the insertion loop may end: the root is
\* then a Node16, a Node48 or a Node256
Widths == {5, 17, 49}
LoadKeys == {<<b>> : b \in 0..(SetMax(Widths) - 1)}

\* the number of one-byte keys, the number of child slots of a Node256
FullWidth == 256
FullKeys == {<<b>> : b \in 0..(FullWidth - 1)}

\* integer keys whose encodings share their first 7 or their first 6 bytes
U64KeyList == <<1, 2, 256, 257, 768, 3>>
U64Keys == {U64KeyList[i] : i \in 1..NumKeys}

\* integer keys around the byte boundaries of the encoding, up to the greatest
\* integer TLC holds, and the pairs of them a run is made with
CodecInts == {0, 1, 255, 256, 65536, 2147483647}
CodecKeySets == {{a, b} : a, b \in CodecInts} \ {{a} : a \in CodecInts}

\* keys of different lengths: a key that is a proper prefix of two others, the
\* empty key, and a key that extends a stored key
PrefixKeyList ==
    << <<1, 2, 3>>, <<1, 2, 4>>, <<1, 2>>, <<>>, <<1>>, <<1, 2, 3, 4>> >>
PrefixKeys == {PrefixKeyList[i] : i \in 1..NumKeys}

\* op names the last call and carries its arguments
NoOp == [name |-> "new"]

\* ArtTree::new
InitTree(ks) ==
    /\ root = Empty
    /\ size = 0
    /\ keys = ks
    /\ op = NoOp
    /\ ret = None
    /\ steps = 0
    /\ load = 0
    /\ phase = "ins"
    /\ drained = 0
    /\ overflow_checks \in BOOLEAN

Init == InitTree(ShortKeys) /\ model = [k \in ShortKeys |-> 0]
InitLong == InitTree(LongKeys) /\ model = [k \in LongKeys |-> 0]
InitPrefix == InitTree(PrefixKeys) /\ model = [k \in PrefixKeys |-> 0]
InitWide == InitTree(WideKeys) /\ model = [k \in WideKeys \cup LoadKeys |-> 0]
InitFull == InitTree(WideKeys) /\ model = [k \in FullKeys |-> 0]
\* U64ArtMap::new
InitU64 == InitTree(U64Keys) /\ model = [k \in U64Keys |-> 0]
InitCodec == \E ks \in CodecKeySets : InitTree(ks) /\ model = [k \in ks |-> 0]

\* the calls after the insertion loop are made once the loop has ended, and
\* before the deletion loop starts or after it has ended
Ready == ret # Panic /\ (load = 0 \/ load \in Widths) /\ drained \in {0, load}
\* the number of mutating calls a run makes
Budget == IF load = 0 THEN MaxOps ELSE MaxWideOps

\* the phase after an insert of key k, after a delete of key k
InsertPhase(k) == IF phase = "ins" /\ model[k] = 0 THEN "ins" ELSE "other"
DeletePhase(k) == IF phase \in {"ins", "del"} /\ model[k] # 0 THEN "del" ELSE "other"

\* --------------------------------------------------------------- operations
\* the effect of a call that returned r = [root, size, ret] and that leaves
\* the reference map as m2; a call that panicked leaves nothing to observe
Returned(r, m2, o, ph) ==
    /\ ret' = r.ret
    /\ phase' = ph
    /\ root' = IF r.ret = Panic THEN root ELSE r.root
    /\ size' = IF r.ret = Panic THEN size ELSE r.size
    /\ model' = IF r.ret = Panic THEN model ELSE m2
    /\ op' = o
    /\ UNCHANGED <<keys, overflow_checks>>

\* a read that takes the root out of the tree, as delete does before it puts
\* the new root back, and leaves it out
Observed_taking(r, o) ==
    /\ ret' = r
    /\ op' = o
    /\ root' = Empty
    /\ UNCHANGED <<size, model, keys, steps, load, phase, drained,
                   overflow_checks>>

\* the effect of a call that only reads the tree
Observed(r, o) ==
    /\ ret' = r
    /\ op' = o
    /\ UNCHANGED <<root, size, model, keys, steps, load, phase, drained,
                   overflow_checks>>

\* the insertion loop of the tests: insert(<<0>>, 1), insert(<<1>>, 1), ...
Load ==
    /\ ret # Panic
    /\ op.name \in {"new", "load"}
    /\ load < SetMax(Widths)
    /\ Returned(insert(root, size, <<load>>, 1, 1),
                [model EXCEPT ![<<load>>] = 1],
                [name |-> "load", key |-> <<load>>, value |-> 1],
                InsertPhase(<<load>>))
    /\ load' = load + 1
    /\ UNCHANGED <<steps, drained>>

\* the deletion loop of the tests, run after the longest insertion loop or
\* after the insertion loop over every one-byte key: delete(<<0>>),
\* delete(<<1>>), ...
Drain ==
    /\ ret # Panic
    /\ load \in {SetMax(Widths), FullWidth}
    /\ op.name \in {"load", "delete", "drain", "reinsert"}
    /\ drained < load
    /\ Returned(delete(root, size, <<drained>>, 1),
                [model EXCEPT ![<<drained>>] = 0],
                [name |-> "drain", key |-> <<drained>>],
                DeletePhase(<<drained>>))
    /\ drained' = drained + 1
    /\ UNCHANGED <<steps, load>>

\* the insertion loop run over every one-byte key: insert(<<0>>, 1), ...,
\* insert(<<255>>, 1)
Fill ==
    /\ ret # Panic
    /\ op.name \in {"new", "load"}
    /\ load < FullWidth
    /\ Returned(insert(root, size, <<load>>, 1, 1),
                [model EXCEPT ![<<load>>] = 1],
                [name |-> "load", key |-> <<load>>, value |-> 1],
                InsertPhase(<<load>>))
    /\ load' = load + 1
    /\ UNCHANGED <<steps, drained>>

\* the key the deletion loop deleted last is inserted again: the tree is
\* back at the loop's previous step
Reinsert ==
    /\ ret # Panic
    /\ op.name \in {"drain", "reinsert"}
    /\ drained > 0
    /\ Returned(insert(root, size, <<drained - 1>>, 1, 1),
                [model EXCEPT ![<<drained - 1>>] = 1],
                [name |-> "reinsert", key |-> <<drained - 1>>, value |-> 1],
                "other")
    /\ drained' = drained - 1
    /\ UNCHANGED <<steps, load>>

Insert(k, v) ==
    /\ Ready
    /\ steps < Budget
    /\ Returned(insert(root, size, k, Len(k), v),
                [model EXCEPT ![k] = v],
                [name |-> "insert", key |-> k, value |-> v],
                InsertPhase(k))
    /\ steps' = steps + 1
    /\ UNCHANGED <<load, drained>>

Delete(k) ==
    /\ Ready
    /\ steps < Budget
    /\ Returned(delete(root, size, k, Len(k)),
                [model EXCEPT ![k] = 0],
                [name |-> "delete", key |-> k],
                DeletePhase(k))
    /\ steps' = steps + 1
    /\ UNCHANGED <<load, drained>>

GetMut(k) ==
    /\ Ready
    /\ Observed(get_mut(root, k, Len(k)), [name |-> "get_mut", key |-> k])

Minimum ==
    /\ Ready
    /\ Observed(tree_minimum(root), [name |-> "minimum"])

Maximum ==
    /\ Ready
    /\ Observed(tree_maximum(root), [name |-> "maximum"])

\* minimum_mut and maximum_mut walk the tree as minimum and maximum do and
\* hand out the same entry, by mutable reference
MinimumMut ==
    /\ Ready
    /\ Observed(tree_minimum(root), [name |-> "minimum_mut"])

MaximumMut ==
    /\ Ready
    /\ Observed(tree_maximum(root), [name |-> "maximum_mut"])

PopFirst ==
    /\ Ready
    /\ steps < Budget
    /\ Returned(pop_first(root, size), RefPopFirst(model),
                [name |-> "pop_first"],
                "other")
    /\ steps' = steps + 1
    /\ UNCHANGED <<load, drained>>

PopLast ==
    /\ Ready
    /\ steps < Budget
    /\ Returned(pop_last(root, size), RefPopLast(model),
                [name |-> "pop_last"],
                "other")
    /\ steps' = steps + 1
    /\ UNCHANGED <<load, drained>>

\* what a run of iter shows: the bool returned and the entries whose values
\* the callback was called with, in order
IterSeen(r) ==
    IF r.panic THEN Panic
    ELSE [tag |-> "Iter", result |-> r.result,
          calls |-> [i \in 1..Len(r.calls) |-> <<r.calls[i].key, r.calls[i].value>>]]

\* iter with the callback that returns true for the values in `stop`
Iter(stop) ==
    /\ Ready
    /\ Observed(IterSeen(iter(root, stop)), [name |-> "iter", stop |-> stop])

Stops == {{}} \cup {{v} : v \in Values}

\* the calls on the integer-key map
U64Insert(x, v) ==
    /\ Ready
    /\ steps < Budget
    /\ Returned(u64_insert(root, size, x, v),
                [model EXCEPT ![x] = v],
                [name |-> "insert", key |-> x, value |-> v],
                InsertPhase(x))
    /\ steps' = steps + 1
    /\ UNCHANGED <<load, drained>>

U64Delete(x) ==
    /\ Ready
    /\ steps < Budget
    /\ Returned(u64_delete(root, size, x),
                [model EXCEPT ![x] = 0],
                [name |-> "delete", key |-> x],
                DeletePhase(x))
    /\ steps' = steps + 1
    /\ UNCHANGED <<load, drained>>

U64GetMut(x) ==
    /\ Ready
    /\ Observed(u64_get_mut(root, x), [name |-> "get_mut", key |-> x])

U64Minimum ==
    /\ Ready
    /\ Observed(u64_minimum(root), [name |-> "minimum"])

U64Maximum ==
    /\ Ready
    /\ Observed(u64_maximum(root), [name |-> "maximum"])

Next ==
    \/ \E k \in keys, v \in Values : Insert(k, v)
    \/ \E k \in keys : Delete(k)
    \/ \E k \in keys : GetMut(k)
    \/ Minimum
    \/ Maximum
    \/ MinimumMut
    \/ MaximumMut
    \/ PopFirst
    \/ PopLast
    \/ \E stop \in Stops : Iter(stop)

NextWide == Load \/ Drain \/ Next

U64PopFirst ==
    /\ Ready
    /\ steps < Budget
    /\ Returned(u64_pop_first(root, size), U64RefPopFirst(model),
                [name |-> "pop_first"],
                "other")
    /\ steps' = steps + 1
    /\ UNCHANGED <<load, drained>>

U64PopLast ==
    /\ Ready
    /\ steps < Budget
    /\ Returned(u64_pop_last(root, size), U64RefPopLast(model),
                [name |-> "pop_last"],
                "other")
    /\ steps' = steps + 1
    /\ UNCHANGED <<load, drained>>

NextFull == Fill \/ Drain

\* the insertion loop, then deletes and inserts that move the number of
\* children of the root down and up
NextHyst == Load \/ Drain \/ Reinsert

NextU64 ==
    \/ \E x \in keys, v \in Values : U64Insert(x, v)
    \/ \E x \in keys : U64Delete(x)
    \/ \E x \in keys : U64GetMut(x)
    \/ U64Minimum
    \/ U64Maximum
    \/ U64PopFirst
    \/ U64PopLast
    \/ \E stop \in Stops : Iter(stop)

Spec == Init /\ [][Next]_vars
SpecLong == InitLong /\ [][Next]_vars
SpecWide == InitWide /\ [][NextWide]_vars
SpecPrefix == InitPrefix /\ [][Next]_vars
SpecFull == InitFull /\ [][NextFull]_vars
SpecHyst == InitWide /\ [][NextHyst]_vars
SpecU64 == InitU64 /\ [][NextU64]_vars
SpecCodec == InitCodec /\ [][NextU64]_vars

\* ------------------------------------------------------------------- claims
\* C1: for every key k whose most recent operation was insert(k, v), with no
\* delete or pop of it since, get(k) returns v.
C1_GetReturnsInserted ==
    (op.name = "get_mut" /\ model[op.key] # 0) => ret = Some(model[op.key])

\* C2: after every step of a sequence of insert and delete calls on the
\* integer-key map, its minimum key, its maximum key and the values iter
\* produces equal the reference map's smallest key, greatest key and values
\* in ascending order of keys.
C2_MatchesReferenceMap ==
    op.name \in {"insert", "delete"} =>
       /\ Present(model) = {} =>
             u64_minimum(root) = None /\ u64_maximum(root) = None
       /\ Present(model) # {} =>
             /\ u64_minimum(root).tag = "Some"
             /\ u64_minimum(root).key = U64RefMin(model)
             /\ u64_maximum(root).tag = "Some"
             /\ u64_maximum(root).key = U64RefMax(model)
       /\ IterSeen(iter(root, {})).tag = "Iter"
       /\ [i \in 1..Len(IterSeen(iter(root, {})).calls) |->
              IterSeen(iter(root, {})).calls[i][2]] = U64RefValues(model)

\* C3: in a state in which key k is present with value v1, also below an
\* interior node whose prefix is longer than MAX_PREFIX_LEN, insert(k, v2)
\* returns Some(v1), leaves size and the set of stored keys unchanged, and
\* afterwards get(k) returns v2.
C3_InsertReplaces ==
    [][\A k \in keys, v2 \in Values :
          (/\ Insert(k, v2)
           /\ model[k] # 0
           /\ get_mut(root, k, Len(k)) = Some(model[k]))
          => /\ ret' = Some(model[k])
             /\ size' = size
             /\ StoredKeys(root') = StoredKeys(root)
             /\ get_mut(root', k, Len(k)) = Some(v2)]_vars

\* C4: insert(k, v) returns None if and only if k was absent immediately
\* before the call, and then size grows by exactly one and exactly one new
\* leaf, holding (k, v), is added.
C4_InsertNoneIffAbsent ==
    [][\A k \in keys, v \in Values :
          Insert(k, v)
          => /\ (ret' = None) <=> (model[k] = 0)
             /\ model[k] = 0 =>
                   /\ size' = size + 1
                   /\ LeafBag(root') = LeafBag(root) (+) SetToBag({<<k, v>>})]_vars

\* C5: delete(k) for a present key k returns the value most recently inserted
\* for k, decreases size by exactly one, and afterwards get(k) returns None.
C5_DeletePresent ==
    [][\A k \in keys :
          (Delete(k) /\ model[k] # 0)
          => /\ ret' = Some(model[k])
             /\ size' = size - 1
             /\ get_mut(root', k, Len(k)) = None]_vars

\* C6: delete(k) for an absent key k returns None and leaves the whole tree
\* identical (node variants, num_children, prefixes, leaves, size), also when
\* the search path holds a Node256 whose slot for the next key byte is Empty.
C6_DeleteAbsentChangesNothing ==
    [][\A k \in keys :
          (Delete(k) /\ model[k] = 0 /\ get_mut(root, k, Len(k)) = None)
          => /\ ret' = None
             /\ root' = root
             /\ size' = size]_vars

\* C7: inserting distinct keys into an empty tree and then deleting them in
\* any order, every delete returns the value inserted for its key, and once
\* all are deleted the root is Empty, size is 0 and minimum() returns None.
C7_InsertAllDeleteAll ==
    [][\A k \in keys :
          (Delete(k) /\ phase \in {"ins", "del"} /\ model[k] # 0)
          => /\ ret' = Some(model[k])
             /\ Present(model') = {} =>
                   /\ root' = Empty
                   /\ size' = 0
                   /\ tree_minimum(root') = None]_vars

\* C8: minimum() returns None if and only if the map is empty, and otherwise
\* the lexicographically smallest present key with its current value.
C8_MinimumIsSmallest ==
    op.name = "minimum" =>
       /\ (ret = None) <=> (Present(model) = {})
       /\ Present(model) # {} => ret = SomeEntry(RefMin(model), model[RefMin(model)])

\* C9: maximum() returns None if and only if the map is empty, and otherwise
\* the lexicographically greatest present key with its current value, also
\* when the rightmost path holds a Node48 or a Node256.
C9_MaximumIsGreatest ==
    op.name = "maximum" =>
       /\ (ret = None) <=> (Present(model) = {})
       /\ Present(model) # {} => ret = SomeEntry(RefMax(model), model[RefMax(model)])

\* C10: iter with a callback that always returns false calls it exactly once
\* for every stored entry, size times in total, in strictly ascending
\* lexicographic order of the entries' keys.
C10_IterVisitsAllAscending ==
    (op.name = "iter" /\ op.stop = {}) =>
       /\ ret.tag = "Iter"
       /\ Len(ret.calls) = size
       /\ ret.calls = RefEntries(model)

\* C11: once the callback returns true for some value, iter calls it for no
\* later entry and returns true, and the entries visited before the stop are
\* exactly the entries with keys smaller than the stopping entry's key.
C11_IterStopsAtFirstTrue ==
    (/\ op.name = "iter"
     /\ ret.tag = "Iter"
     /\ \E i \in 1..Len(ret.calls) : ret.calls[i][2] \in op.stop)
    => /\ ret.result = TRUE
       /\ ret.calls[Len(ret.calls)][2] \in op.stop
       /\ \A i \in 1..(Len(ret.calls) - 1) : ret.calls[i][2] \notin op.stop
       /\ {ret.calls[i] : i \in 1..(Len(ret.calls) - 1)}
             = {<<k, model[k]>> : k \in {j \in Present(model) :
                                          LexLess(j, ret.calls[Len(ret.calls)][1])}}

\* C12: iter returns true if and only if some call of the callback returned
\* true; it returns false when the callback always returns false and when the
\* tree is empty.
C12_IterResultIffStopped ==
    (op.name = "iter" /\ ret.tag = "Iter")
    => (ret.result <=> \E i \in 1..Len(ret.calls) : ret.calls[i][2] \in op.stop)

\* C13: on a non-empty tree pop_first returns Some((k, v)) with k the smallest
\* present key and v its value, without aborting; afterwards k is absent, size
\* is one less and every other entry is still present; the result is what
\* minimum() reported before the call and the effect is that of delete(k).
C13_PopFirstTakesSmallest ==
    [][(PopFirst /\ Present(model) # {})
       => /\ ret' = SomeEntry(RefMin(model), model[RefMin(model)])
          /\ ret' = tree_minimum(root)
          /\ size' = size - 1
          /\ get_mut(root', RefMin(model), Len(RefMin(model))) = None
          /\ \A j \in Present(model) \ {RefMin(model)} :
                get_mut(root', j, Len(j)) = Some(model[j])
          /\ root' = delete(root, size, RefMin(model), Len(RefMin(model))).root]_vars

\* C14: on a non-empty tree pop_last returns Some((k, v)) with k the greatest
\* present key and v its value, without aborting; afterwards k is absent, size
\* is one less and every other entry is still present.  Repeated, it hands
\* out the keys in descending order.
C14_PopLastTakesGreatest ==
    [][(PopLast /\ Present(model) # {})
       => /\ ret' = SomeEntry(RefMax(model), model[RefMax(model)])
          /\ size' = size - 1
          /\ get_mut(root', RefMax(model), Len(RefMax(model))) = None
          /\ \A j \in Present(model) \ {RefMax(model)} :
                get_mut(root', j, Len(j)) = Some(model[j])]_vars

\* C15: after any sequence of insert, delete, pop_first and pop_last calls the
\* size field equals the number of leaves reachable from the root, and it
\* never goes below zero.
C15_SizeCountsLeaves ==
    size >= 0 /\ size = BagCardinality(LeafBag(root))
\* C16: get_mut(k) and delete(k) for a key k that is not stored return none
\* without aborting, whatever the length of k: a proper prefix of a stored key,
\* the empty key, a key shorter than the depth the descent reaches
C16_AbsentKeyOfAnyLength ==
    [][\A k \in keys :
          (/\ model[k] = 0
           /\ k \notin StoredKeys(root)
           /\ (GetMut(k) \/ Delete(k)))
          => ret' = None]_vars

\* C17: the 8-byte encoding of the integer keys keeps their order, a < b if
\* and only if the encoding of a is lexicographically smaller than that of b,
\* and is undone by the decoding; the key that minimum, maximum, pop_first or
\* pop_last of the integer-key map returns is an integer that was inserted,
\* the one whose encoding is stored in the tree
C17_EncodingKeepsOrder ==
    [][/\ \A a \in keys, b \in keys :
             (a < b) <=> LexLess(to_be_bytes(a), to_be_bytes(b))
       /\ \A a \in keys :
             Len(to_be_bytes(a)) = 8 /\ from_be_bytes(to_be_bytes(a)) = a
       /\ ((U64Minimum \/ U64Maximum \/ U64PopFirst \/ U64PopLast)
              /\ ret'.tag = "Some")
           => /\ model[ret'.key] # 0
              /\ to_be_bytes(ret'.key) \in StoredKeys(root)
              /\ ret'.value = model[ret'.key]]_vars

\* pop_last returns 256 where 255 and 256 were inserted: their encodings
\* differ in the last two bytes
C17_Witness ==
    /\ keys = {255, 256}
    /\ op.name = "pop_last"
    /\ ret = SomeEntry(256, 1)
    /\ StoredKeys(root) = {to_be_bytes(255)}

\* C18: on an empty tree, the fresh one and one emptied again by deletes,
\* get_mut(k) returns none for every key k, minimum and maximum return none,
\* and pop_first and pop_last return none and leave the tree empty, size 0
C18_EmptyTreeReturnsNone ==
    [][root = Empty =>
          /\ \A k \in keys : GetMut(k) => ret' = None
          /\ (Minimum \/ Maximum) => ret' = None
          /\ (PopFirst \/ PopLast) => (ret' = None /\ root' = Empty /\ size' = 0)]_vars

\* C19: after any sequence of inserts and deletes, every leaf below an
\* interior node at depth d with partial_len = L agrees on its first d + L
\* bytes with the prefixes and edge bytes on the path from the root through
\* that node, and the child under edge byte b holds only leaves whose byte at
\* d + L is b
C19_PrefixCorrectness == PrefixCorrect(root, 0)

\* C20: when insert of an absent key k reaches an interior node (here the
\* root, at depth 0) whose prefix first differs from k at index diff <
\* partial_len, the node is replaced by a new Node4 with partial_len = diff and
\* exactly two children: the old node, its children untouched and its
\* partial_len reduced by diff + 1, under the prefix byte at index diff, and a
\* new leaf under k[diff]
C20_PrefixSplitMakesNode4 ==
    [][\A k \in keys, v \in Values :
          (/\ root.tag = "Internal"
           /\ root.header.partial_len # 0
           /\ k \notin StoredKeys(root)
           /\ prefix_mismatch(root, k, Len(k), 0) \in 0..(root.header.partial_len - 1)
           /\ Insert(k, v))
          => /\ ret' = None
             /\ root'.tag = "Internal"
             /\ root'.inner.kind = "Node4"
             /\ root'.header.partial_len = prefix_mismatch(root, k, Len(k), 0)
             /\ root'.header.num_children = 2
             /\ \E old \in Edges(root'), new \in Edges(root') :
                   /\ Edges(root') = {old, new}
                   /\ old[1] = (IF prefix_mismatch(root, k, Len(k), 0) < MAX_PREFIX_LEN
                                THEN root.header.partial[prefix_mismatch(root, k, Len(k), 0)]
                                ELSE At(minimum(root).key, prefix_mismatch(root, k, Len(k), 0)))
                   /\ root'.inner.children[old[2]].tag = "Internal"
                   /\ root'.inner.children[old[2]].inner = root.inner
                   /\ root'.inner.children[old[2]].header.num_children
                         = root.header.num_children
                   /\ root'.inner.children[old[2]].header.partial_len
                         = root.header.partial_len
                             - (prefix_mismatch(root, k, Len(k), 0) + 1)
                   /\ new[1] = At(k, prefix_mismatch(root, k, Len(k), 0))
                   /\ root'.inner.children[new[2]].tag = "Leaf"
                   /\ root'.inner.children[new[2]] = NewLeaf(k, Len(k), v)]_vars

\* the number of bytes on which the keys a and b agree from position d on
CommonFrom(a, b, d) ==
    SetMin({i \in 0..Len(a) :
               \/ d + i >= Len(a)
               \/ d + i >= Len(b)
               \/ At(a, d + i) # At(b, d + i)})

\* r, the result of the insert of (key, value) at the leaf `leaf` reached at
\* depth d, is a Node4 with the common prefix of the two keys and the two
\* leaves under the bytes that follow it, in ascending order
SplitShape(r, leaf, key, value, d, lcp) ==
    /\ r.ret = None
    /\ r.node.tag = "Internal"
    /\ r.node.inner.kind = "Node4"
    /\ r.node.header.partial_len = lcp
    /\ \A i \in 0..(Min2(lcp, MAX_PREFIX_LEN) - 1) :
          r.node.header.partial[i] = At(key, d + i)
    /\ r.node.header.num_children = 2
    /\ r.node.inner.keys[0] < r.node.inner.keys[1]
    /\ {<<r.node.inner.keys[i], r.node.inner.children[i]>> : i \in 0..1}
          = {<<At(leaf.key, d + lcp), leaf>>,
             <<At(key, d + lcp), NewLeaf(key, Len(key), value)>>}
    /\ r.node.inner.children[2] = Empty
    /\ r.node.inner.children[3] = Empty

\* the insert of (key, value) that reaches a leaf, `reached`, splits it
SplitsReached(reached, key, value) ==
    (reached.found /\ reached.leaf.key # key)
    => SplitShape(recursive_insert(reached.leaf, key, Len(key), value, reached.depth),
                  reached.leaf, key, value, reached.depth,
                  CommonFrom(reached.leaf.key, key, reached.depth))

\* C21: when insert reaches a leaf at depth d whose key differs from the
\* inserted key, the leaf is replaced by a new Node4 whose partial_len is the
\* length lcp of the common prefix of the two keys from d, whose cached prefix
\* is key[d .. d + min(lcp, 10)], and whose two children are the old leaf
\* under old_key[d + lcp] and the new leaf under key[d + lcp], in ascending
\* byte order
C21_LeafSplitMakesNode4 ==
    \A k \in keys, v \in Values :
        SplitsReached(insert_reaches(root, k, Len(k), 0), k, v)

\* byte i of the full prefix of the interior node at depth d: a cached byte,
\* or beyond the cache the byte of a leaf below the node
TruePrefixByte(node, d, i) ==
    IF i < MAX_PREFIX_LEN THEN node.header.partial[i]
    ELSE At(minimum(node).key, d + i)
\* the indices below partial_len at which the key leaves the full prefix
TruePrefixDiff(node, key, d) ==
    {i \in 0..(node.header.partial_len - 1) :
        \/ d + i >= Len(key)
        \/ At(key, d + i) # TruePrefixByte(node, d, i)}
\* pm is the index prefix_mismatch is to return for the key at this node
MismatchIndexRight(pm, node, key, d) ==
    IF TruePrefixDiff(node, key, d) = {}
    THEN pm >= node.header.partial_len
    ELSE pm = SetMin(TruePrefixDiff(node, key, d))

\* C22: prefix_mismatch(key, depth) on an interior node (here the root, at
\* depth 0) returns the smallest index i < partial_len at which the node's
\* full prefix differs from key[depth + i], and a value >= partial_len when
\* the key agrees with the whole prefix, whether partial_len is at most
\* MAX_PREFIX_LEN or greater and the uncached bytes come from a leaf
C22_PrefixMismatchIndex ==
    (root.tag = "Internal" /\ root.header.partial_len # 0)
    => \A k \in keys :
          MismatchIndexRight(prefix_mismatch(root, k, Len(k), 0), root, k, 0)

\* the cached prefix bytes of the interior node at depth d, and of every
\* interior node below it, are the bytes from d on of the keys of the leaves
\* below the node
RECURSIVE CachedPrefixCorrect(_, _)
CachedPrefixCorrect(node, d) ==
    IF node.tag # "Internal" THEN TRUE
    ELSE /\ \A k \in StoredKeys(node) :
              \A i \in 0..(Min2(node.header.partial_len, MAX_PREFIX_LEN) - 1) :
                  d + i < Len(k) /\ At(k, d + i) = node.header.partial[i]
         /\ \A e \in Edges(node) :
              CachedPrefixCorrect(node.inner.children[e[2]],
                                  d + node.header.partial_len + 1)

\* C23: after any sequence of inserts and deletes, for every interior node at
\* depth d the cached bytes partial[0 .. min(partial_len, 10)) equal the bytes
\* [d, d + min(partial_len, 10)) of the key of every leaf below that node
C23_CachedPrefixMatchesLeaves == CachedPrefixCorrect(root, 0)

\* the layout of a Node4 or Node16: the first num_children key bytes strictly
\* increase, their children are not Empty, and the slots behind them are Empty
SortedNode(n) ==
    \A i \in DOMAIN n.inner.children :
        /\ i < n.header.num_children => ~is_empty(n.inner.children[i])
        /\ (0 < i /\ i < n.header.num_children) => n.inner.keys[i - 1] < n.inner.keys[i]
        /\ i >= n.header.num_children => is_empty(n.inner.children[i])

\* C24: after any sequence of inserts and deletes, in every Node4 and Node16
\* the key bytes keys[0 .. num_children) strictly increase, the children in
\* the slots 0 .. num_children - 1 are not Empty, and every slot at an index
\* >= num_children holds an Empty child
C24_SortedNodeLayout ==
    \A n \in InternalNodes(root) :
        n.inner.kind \in {"Node4", "Node16"} => SortedNode(n)

\* the layout of a Node48: num_children bytes have an index entry, the
\* entries are in 1..48 and name different slots, and the slots they name are
\* the slots that are not Empty
IndexedNode(n) ==
    /\ Cardinality({c \in 0..255 : n.inner.keys[c] # 0}) = n.header.num_children
    /\ \A c \in 0..255 : n.inner.keys[c] \in 0..48
    /\ \A c1 \in 0..255, c2 \in 0..255 :
          (c1 # c2 /\ n.inner.keys[c1] # 0) => n.inner.keys[c1] # n.inner.keys[c2]
    /\ \A slot \in 0..47 :
          is_empty(n.inner.children[slot])
             <=> (\A c \in 0..255 : n.inner.keys[c] # slot + 1)

\* C25: after any sequence of inserts and deletes, in every Node48 exactly
\* num_children entries of the 256-entry index are non-zero, each of them is
\* in 1..48, no two name the same child slot, every slot named holds a Leaf or
\* an Interior node and every slot not named is Empty
C25_Node48Index ==
    \A n \in InternalNodes(root) : n.inner.kind = "Node48" => IndexedNode(n)

\* C26: after any sequence of inserts and deletes, deletes of absent keys
\* among them, in every Node256 the number of child slots that are not Empty
\* equals num_children
C26_Node256Count ==
    \A n \in InternalNodes(root) :
        n.inner.kind = "Node256"
        => Cardinality({i \in 0..255 : ~is_empty(n.inner.children[i])})
              = n.header.num_children

\* the slots of an interior node that its header and keys say are in use
UsedSlots(n) ==
    CASE n.inner.kind \in {"Node4", "Node16"} ->
           {i \in DOMAIN n.inner.children : i < n.header.num_children}
      [] n.inner.kind = "Node48" ->
           {n.inner.keys[c] - 1 : c \in {j \in 0..255 : n.inner.keys[j] # 0}}
      [] n.inner.kind = "Node256" ->
           {i \in 0..255 : ~is_empty(n.inner.children[i])}

\* C27: between operations every interior node reachable from the root has
\* at least two children: none with zero or one child survives an insert or
\* a delete, and no used child slot of an interior node holds Empty
C27_AtLeastTwoChildren ==
    \A n \in InternalNodes(root) :
        /\ Cardinality({i \in DOMAIN n.inner.children :
                            ~is_empty(n.inner.children[i])}) >= 2
        /\ \A i \in UsedSlots(n) : ~is_empty(n.inner.children[i])

\* the delete of [2,0,0] left the root with the one child under byte 1, an
\* interior node with prefix [2], and the root was merged into it: the prefix
\* is now [1,2] and the node holds its two leaves
C27_Witness ==
    /\ op = [name |-> "delete", key |-> <<2, 0, 0>>]
    /\ ret.tag = "Some"
    /\ root.tag = "Internal"
    /\ root.header.partial_len = 2
    /\ root.header.num_children = 2
    /\ StoredKeys(root) = {<<1, 2, 3>>, <<1, 2, 4>>}
    /\ steps = 4

\* the children an interior node holds under byte b
ChildrenUnder(node, b) ==
    {node.inner.children[e[2]] : e \in {f \in Edges(node) : f[1] = b}}

\* the variant of a node of variant `kind` with nc children after one more
\* child was added
KindAfterAdd(kind, nc) ==
    CASE kind = "Node4" -> IF nc < 4 THEN "Node4" ELSE "Node16"
      [] kind = "Node16" -> IF nc < 16 THEN "Node16" ELSE "Node48"
      [] kind = "Node48" -> IF nc < 48 THEN "Node48" ELSE "Node256"
      [] kind = "Node256" -> "Node256"

\* C28: add_child keeps the node's variant while it is below capacity and
\* turns a Node4 into a Node16 with the 5th child, a Node16 into a Node48
\* with the 17th and a Node48 into a Node256 with the 49th; in every case
\* num_children grows by exactly one, every byte present before still maps to
\* the same child, and the new byte maps to the new child
C28_AddChildGrowsNode ==
    [][(Fill /\ root.tag = "Internal")
       => /\ ret' = None
          /\ root'.tag = "Internal"
          /\ root'.inner.kind = KindAfterAdd(root.inner.kind, root.header.num_children)
          /\ root'.header.num_children = root.header.num_children + 1
          /\ \A e \in Edges(root) :
                ChildrenUnder(root', e[1]) = {root.inner.children[e[2]]}
          /\ ChildrenUnder(root', load) = {NewLeaf(<<load>>, 1, 1)}]_vars

\* the number of children an interior node holds
NumLive(node) ==
    Cardinality({i \in DOMAIN node.inner.children : ~is_empty(node.inner.children[i])})

\* the variant of a node of variant `kind` after the removal of a child left
\* it with `left` children
KindAfterRemove(kind, left) ==
    CASE kind = "Node256" -> IF left = 37 THEN "Node48" ELSE "Node256"
      [] kind = "Node48" -> IF left = 12 THEN "Node16" ELSE "Node48"
      [] kind = "Node16" -> IF left = 3 THEN "Node4" ELSE "Node16"
      [] kind = "Node4" -> "Node4"

\* C29: when the removal of a child during delete brings a Node256 to 37
\* children it becomes a Node48, a Node48 brought to 12 children becomes a
\* Node16 and a Node16 brought to 3 children becomes a Node4, and no other
\* removal changes the variant; the header prefix stays, every remaining byte
\* maps to the same child as before, and a Node16 or Node4 holds its bytes in
\* ascending order.  Stated for the root, whose children are the leaves of
\* the one-byte keys.
C29_RemovalShrinksNode ==
    [][((Drain \/ \E k \in keys : Delete(k))
          /\ root.tag = "Internal"
          /\ root'.tag = "Internal"
          /\ ret'.tag = "Some")
       => /\ root'.inner.kind = KindAfterRemove(root.inner.kind, NumLive(root) - 1)
          /\ root'.header.partial_len = root.header.partial_len
          /\ root'.header.partial = root.header.partial
          /\ \A e \in Edges(root) :
                e[1] # op'.key[1]
                => ChildrenUnder(root', e[1]) = {root.inner.children[e[2]]}
          /\ root'.inner.kind \in {"Node4", "Node16"} => SortedNode(root')]_vars

\* C30, as stated: after any sequence of inserts and deletes, every interior
\* node holding exactly 4 children is a Node4
C30_FourChildrenIsNode4 ==
    \A n \in InternalNodes(root) : NumLive(n) = 4 => n.inner.kind = "Node4"

\* C30, amended: every interior node holding exactly 4 children is a Node4 or
\* a Node16; a Node16 that deletes bring down from 5 children stays a Node16
\* with 4 and becomes a Node4 with 3
C30_FourChildrenNode4OrNode16 ==
    \A n \in InternalNodes(root) :
        NumLive(n) = 4 => n.inner.kind \in {"Node4", "Node16"}

\* a delete left the root, a Node16, with exactly 4 children
C30_Witness ==
    /\ op.name \in {"delete", "drain"}
    /\ ret.tag = "Some"
    /\ root.tag = "Internal"
    /\ root.inner.kind = "Node16"
    /\ NumLive(root) = 4
    /\ root.header.num_children = 4

\* the interior node `before` became the next larger variant `after`
Promoted(before, after) ==
    /\ before.tag = "Internal"
    /\ after.tag = "Internal"
    /\ <<before.inner.kind, after.inner.kind>>
          \in {<<"Node4", "Node16">>, <<"Node16", "Node48">>, <<"Node48", "Node256">>}

\* C31: a removal of a child that demotes a node is not followed by a
\* promotion on the very next addition of a child, and an addition that
\* promotes it is not followed by a demotion on the very next removal, whether
\* the next call is for the same key or for another one; stated for the root,
\* whose children are the leaves of the one-byte keys
C31_Hysteresis ==
    [][/\ (Drain /\ Promoted(root', root))
          => \A k \in {op'.key, <<200>>} :
                ~Promoted(root', insert(root', size', k, 1, 1).root)
       /\ ((Load \/ Reinsert) /\ Promoted(root, root'))
          => \A k \in {op'.key, <<0>>, <<48>>} :
                get_mut(root', k, 1) # None
                => ~Promoted(delete(root', size', k, 1).root, root')]_vars

\* the delete that left the root with 37 children made a Node48 of it, and
\* the insert of the same key that followed left it a Node48, with 38
C31_Witness ==
    /\ load = SetMax(Widths)
    /\ drained = 11
    /\ op = [name |-> "reinsert", key |-> <<11>>, value |-> 1]
    /\ ret = None
    /\ root.tag = "Internal"
    /\ root.inner.kind = "Node48"
    /\ root.header.num_children = 38
    /\ NumLive(root) = 38

\* C32: when a delete leaves a Node4 (here the root) with exactly one child,
\* the node is replaced by that child: a leaf is installed unchanged; an
\* interior child gets partial_len = parent partial_len + 1 + its own, its
\* cached prefix becomes the first min(10, new partial_len) bytes of the
\* parent's prefix, the edge byte and its old prefix, and its children stay
C32_CollapseIntoChild ==
    [][\A k \in keys :
          (/\ Delete(k)
           /\ ret'.tag = "Some"
           /\ root.tag = "Internal"
           /\ root.inner.kind = "Node4"
           /\ NumLive(root) = 2)
          => ((\E e \in Edges(root) :
                   /\ root.inner.children[e[2]].tag = "Leaf"
                   /\ root.inner.children[e[2]].key = k)
              => \E gone \in Edges(root), kept \in Edges(root) :
                /\ gone # kept
                /\ root.inner.children[gone[2]].tag = "Leaf"
                /\ root.inner.children[gone[2]].key = k
                /\ ret' = Some(root.inner.children[gone[2]].value)
                /\ IF root.inner.children[kept[2]].tag = "Leaf"
                   THEN root' = root.inner.children[kept[2]]
                   ELSE /\ root'.tag = "Internal"
                        /\ root'.header.partial_len
                              = root.header.partial_len + 1
                                  + root.inner.children[kept[2]].header.partial_len
                        /\ \A i \in 0..(Min2(MAX_PREFIX_LEN, root'.header.partial_len) - 1) :
                              root'.header.partial[i]
                                 = (IF i < root.header.partial_len
                                    THEN root.header.partial[i]
                                    ELSE IF i = root.header.partial_len THEN kept[1]
                                    ELSE root.inner.children[kept[2]].header.partial[
                                            i - root.header.partial_len - 1])
                        /\ root'.inner = root.inner.children[kept[2]].inner
                        /\ root'.header.num_children
                              = root.inner.children[kept[2]].header.num_children)]_vars

\* the delete of [7,7,8,0] left the root, with prefix [7,7], with the one
\* child under byte 7, an interior node with a prefix of 8 bytes: the merged
\* node has partial_len 2 + 1 + 8 = 11 and caches the first 10 bytes
C32_Witness ==
    /\ op = [name |-> "delete", key |-> <<7, 7, 8, 0>>]
    /\ ret.tag = "Some"
    /\ root.tag = "Internal"
    /\ root.header.partial_len = 11
    /\ \A i \in 0..(MAX_PREFIX_LEN - 1) : root.header.partial[i] = 7
    /\ NumLive(root) = 2
    /\ StoredKeys(root) = {Sevens \o <<1>>, Sevens \o <<2>>}

\* C33: get and delete compare only the cached part of a prefix, yet they
\* never act on a wrong entry: get(k) returns a value only from a leaf whose
\* stored key is k, and delete(k) removes no leaf whose stored key is not k:
\* every entry with another key is held by as many leaves after the call as
\* before it
C33_NeverActsOnWrongEntry ==
    [][/\ \A k \in keys :
             (GetMut(k) /\ ret'.tag = "Some")
             => <<k, ret'.v>> \in BagToSet(LeafBag(root))
       /\ (Drain \/ \E k \in keys : Delete(k))
          => \A e \in BagToSet(LeafBag(root)) :
                e[1] # op'.key
                => CopiesIn(e, LeafBag(root')) = CopiesIn(e, LeafBag(root))]_vars

\* C34: for two distinct keys j and k of which one is a proper prefix of the
\* other, the insert of k into the tree that holds j alone, in either order
\* of the two, does not abort, and afterwards get of each of the two keys
\* returns that key's own value
C34_PrefixKeysInsert ==
    [][\A j \in keys, k \in keys, v \in Values :
          (/\ Present(model) = {j}
           /\ StoredKeys(root) = {j}
           /\ Len(j) # Len(k)
           /\ \A i \in 1..Min2(Len(j), Len(k)) : j[i] = k[i]
           /\ Insert(k, v))
          => /\ ret' = None
             /\ size' = 2
             /\ get_mut(root', k, Len(k)) = Some(v)
             /\ get_mut(root', j, Len(j)) = Some(model[j])]_vars

\* C35: a Node256 (here the root) holds all 256 children: the insert that
\* adds the 256th child does not abort and leaves num_children = 256, the
\* number of slots that are not Empty; num_children is that number after
\* every insert and delete, and the deletes that follow make a Node48 of the
\* node exactly when they leave it with 37 children
C35_Node256HoldsAll ==
    [][/\ (Fill /\ load = FullWidth - 1)
          => /\ ret' = None
             /\ root'.inner.kind = "Node256"
             /\ NumLive(root') = FullWidth
             /\ root'.header.num_children = FullWidth
       /\ ((Fill \/ Drain) /\ root'.tag = "Internal" /\ root'.inner.kind = "Node256")
          => root'.header.num_children = NumLive(root')
       /\ (Drain /\ root.tag = "Internal" /\ root.inner.kind = "Node256")
          => /\ ret' = Some(1)
             /\ root'.tag = "Internal"
             /\ (root'.inner.kind = "Node48") <=> (NumLive(root') = 37)
             /\ root'.inner.kind \in {"Node48", "Node256"}]_vars

\* C36: insert(k, v) and delete(k) change nothing about any other key: every
\* key j other than k is stored after the call if and only if it was stored
\* before, and get(j) returns the same result, without aborting, before and
\* after
C36_OtherKeysUntouched ==
    [][\A k \in keys :
          ((Delete(k) \/ \E v \in Values : Insert(k, v)) /\ ret' # Panic)
          => \A j \in keys \ {k} :
                /\ (j \in StoredKeys(root')) <=> (j \in StoredKeys(root))
                /\ get_mut(root, j, Len(j)) # Panic
                /\ get_mut(root', j, Len(j)) = get_mut(root, j, Len(j))]_vars

C38_LcpDepthInBounds ==
    \A k \in keys :
        \A r \in {insert_reaches(root, k, Len(k), 0)} :
            (r.found /\ ~matches(r.leaf, k, Len(k)))
            => /\ r.depth <= Min2(r.leaf.key_len, Len(k))
               /\ \A lcp \in {longest_common_prefix(r.leaf, NewLeaf(k, Len(k), 1), r.depth)} :
                     /\ lcp # PanicN
                     /\ r.depth + lcp < Len(r.leaf.key)
                     /\ r.depth + lcp < Len(k)

====
